---------------------------- MODULE Spec2Model ----------------------------
(***************************************************************************)
(* A model of runts_monitor.py: the monitoring run (check_for_changes,     *)
(* process_entity, save_history, send_notification), the snapshot differ   *)
(* (flatten_dict, compare_entities), the document table extractor          *)
(* (extract_documents) and the person extractor (extract_person_data,      *)
(* extract_text).                                                          *)
(*                                                                         *)
(* Python values are tagged pairs: <<"str", s>> a string, <<"dict", f>> a  *)
(* dict (f a function from its keys to values), <<"list", q>> a list.      *)
(* Texts are TLA+ strings; the text operations of the code (in, upper,     *)
(* isdigit, int, re.search) are computed character by character.           *)
(***************************************************************************)
EXTENDS Integers, Sequences, FiniteSets, TLC

VARIABLES
    \* ---- the monitoring run (check_for_changes / process_entity) ----
    pc,             \* position of the run: "idle", "search", "compare", ...
    config,         \* load_config(): [enti, email]
    history_file,   \* contents of data/history.json (a dict), persisted
    history,        \* the dict `history` of check_for_changes
    all_changes,    \* the list `all_changes` of check_for_changes
    idx,            \* position of the loop `for ente in config["enti"]`
    current_data,   \* local `current_data` of process_entity
    had_entry,      \* whether `codice_fiscale in history` held at line 664
    old_entry,      \* local `old_data` of process_entity (line 665)
    added,          \* the ChangeRecords process_entity appended (line 670)
    notifications,  \* the notification_*.json files written, oldest first
    clock,          \* datetime.now(), counted in captures
    runs,           \* completed calls of check_for_changes
    undelivered,    \* the all_changes of the latest run if its notification
                    \* step wrote no file, empty otherwise
    \* ---- compare_entities applied to two drawn snapshots ----
    cmp_pc, cmp_old, cmp_new, cmp_out, cmp_back,
    \* ---- extract_documents applied to a drawn page, and to the same
    \*      page with its rows in another order ----
    doc_pc, doc_page, doc_perm, doc_out, doc_out_perm,
    \* ---- extract_person_data applied to a drawn page and person number ----
    per_pc, per_soup, per_num, per_out,
    \* ---- search_entity called for each entity of a drawn list ----
    srch_pc,        \* "call" before a call, "returned" after it, "end"
    srch_enti,      \* config["enti"]
    srch_idx,       \* position of the loop of line 700
    site,           \* the registry during the last call: where the search
                    \* ended and what its pages held
    srch_out        \* the snapshots returned so far

runVars == <<pc, config, history_file, history, all_changes, idx, current_data,
             had_entry, old_entry, added, notifications, clock, runs, undelivered>>
cmpVars == <<cmp_pc, cmp_old, cmp_new, cmp_out, cmp_back>>
docVars == <<doc_pc, doc_page, doc_perm, doc_out, doc_out_perm>>
perVars == <<per_pc, per_soup, per_num, per_out>>
srchVars == <<srch_pc, srch_enti, srch_idx, site, srch_out>>
vars == <<runVars, cmpVars, docVars, perVars, srchVars>>

---------------------------------------------------------------------------
(* Python values *)

PyStr(s) == <<"str", s>>
PyDict(f) == <<"dict", f>>
PyList(q) == <<"list", q>>
IsDict(v) == v[1] = "dict"
IsList(v) == v[1] = "list"

\* A dict of strings: every value of the mapping f wrapped as a Python str.
StrDict(f) == PyDict([k \in DOMAIN f |-> PyStr(f[k])])
\* A list of dicts of strings.
DictList(q) == PyList([i \in DOMAIN q |-> StrDict(q[i])])

\* The empty dict {} (the empty function).
EmptyMap == <<>>

\* All the orders in which the elements of a finite set can be listed.
ListOrders(S) ==
    { q \in [1..Cardinality(S) -> S] : \A i, j \in DOMAIN q : i # j => q[i] # q[j] }

---------------------------------------------------------------------------
(* flatten_dict and compare_entities *)

\* The (key, value) pairs flatten_dict collects in `items` for the dict
\* content d under `prefix`.
RECURSIVE flatten_items(_, _)
flatten_items(d, prefix) ==
    UNION { LET new_key == IF prefix # "" THEN prefix \o "." \o k ELSE k
                v == d[k]
            IN  IF IsDict(v) THEN flatten_items(v[2], new_key)
                ELSE IF IsList(v)
                THEN UNION { LET item == v[2][i]
                                 item_key == new_key \o "[" \o ToString(i - 1) \o "]"
                             IN  IF IsDict(item) THEN flatten_items(item[2], item_key)
                                 ELSE {<<item_key, item>>}
                             : i \in DOMAIN v[2] }
                ELSE {<<new_key, v>>}
            : k \in DOMAIN d }

\* flatten_dict(d, prefix): dict(items).  No key of a snapshot contains '.'
\* or '[', so no two items share a key.
flatten_dict(d, prefix) ==
    LET items == flatten_items(d[2], prefix)
    IN  [p \in {it[1] : it \in items} |-> (CHOOSE it \in items : it[1] = p)[2]]

\* dict.get(key, default)
DictGet(f, key, default) == IF key \in DOMAIN f THEN f[key] ELSE default

\* The sentinel of lines 641-642.
NA == PyStr("N/A")

\* Mutant of SkippedKey: another top-level key is skipped.
SkippedKey_wrong == "codice_fiscale"

\* The key compare_entities skips (line 638).
SkippedKey == "data_controllo"

\* Mutant of old_value: the default of the old side is the empty string.
old_value_empty_default(flat_old, key) == DictGet(flat_old, key, PyStr(""))

old_value(flat_old, key) == DictGet(flat_old, key, NA)
new_value(flat_new, key) == DictGet(flat_new, key, NA)

\* compare_entities: the ChangeRecords of the returned list.  The list is
\* built iterating a Python set of keys, whose order is unspecified: the
\* operator gives the records, and the place that appends them to a list
\* (process_entity, line 670) chooses the order.
compare_entities(old_data, new_data, codice_fiscale, nome_ente) ==
    LET flat_old == flatten_dict(old_data, "")
        flat_new == flatten_dict(new_data, "")
    IN  { [nome |-> nome_ente,
           codice_fiscale |-> codice_fiscale,
           campo |-> key,
           valore_precedente |-> old_value(flat_old, key),
           valore_nuovo |-> new_value(flat_new, key)]
          : key \in { k \in (DOMAIN flat_old) \cup (DOMAIN flat_new) :
                        /\ k # SkippedKey
                        /\ old_value(flat_old, k) # new_value(flat_new, k) } }

\* The value of `campo` send_notification treats as a newly published
\* financial statement (line 478); every other campo is a flattened path.
NewBalanceField == "Nuovo bilancio pubblicato"

---------------------------------------------------------------------------
(* Snapshots (the dict entity_data of search_entity, lines 244-252) *)

\* `found` holds what the steps of search_entity stored before it returned:
\* [dati_base, dati_ente, sede_legale, persone, documenti].
EntityData(data_controllo, codice_fiscale, found) ==
    PyDict([data_controllo |-> PyStr(data_controllo),
            codice_fiscale |-> PyStr(codice_fiscale),
            dati_base |-> StrDict(found.dati_base),
            dati_ente |-> StrDict(found.dati_ente),
            sede_legale |-> StrDict(found.sede_legale),
            persone |-> DictList(found.persone),
            documenti |-> DictList(found.documenti)])

\* What search_entity has stored when it returns early (lines 300, 329,
\* 338, 344, 384, 455 before any extraction): the containers of 247-251.
NothingFound ==
    [dati_base |-> EmptyMap, dati_ente |-> EmptyMap, sede_legale |-> EmptyMap,
     persone |-> <<>>, documenti |-> <<>>]

\* The dict a document row becomes (lines 213-218).
DocumentData(doc_type, code, date, has_attachment) ==
    [tipo_documento |-> doc_type, codice_pratica |-> code,
     anno |-> date, ha_allegato |-> has_attachment]

---------------------------------------------------------------------------
(* Texts: the str operations the extractors use *)

\* The character of s at position i (1-based).
CharAt(s, i) == SubSeq(s, i, i)

\* sub in s
Contains(s, sub) ==
    \E i \in 1..(Len(s) - Len(sub) + 1) : SubSeq(s, i, i + Len(sub) - 1) = sub

\* str.upper() and str.lower(), one character: the ASCII letters change,
\* every other character of the texts used here maps to itself.
UpperOf ==
    [a |-> "A", b |-> "B", c |-> "C", d |-> "D", e |-> "E", f |-> "F", g |-> "G",
     h |-> "H", i |-> "I", j |-> "J", k |-> "K", l |-> "L", m |-> "M", n |-> "N",
     o |-> "O", p |-> "P", q |-> "Q", r |-> "R", s |-> "S", t |-> "T", u |-> "U",
     v |-> "V", w |-> "W", x |-> "X", y |-> "Y", z |-> "Z"]
LowerOf ==
    [A |-> "a", B |-> "b", C |-> "c", D |-> "d", E |-> "e", F |-> "f", G |-> "g",
     H |-> "h", I |-> "i", J |-> "j", K |-> "k", L |-> "l", M |-> "m", N |-> "n",
     O |-> "o", P |-> "p", Q |-> "q", R |-> "r", S |-> "s", T |-> "t", U |-> "u",
     V |-> "v", W |-> "w", X |-> "x", Y |-> "y", Z |-> "z"]
UpperChar(c) == IF c \in DOMAIN UpperOf THEN UpperOf[c] ELSE c
LowerChar(c) == IF c \in DOMAIN LowerOf THEN LowerOf[c] ELSE c

RECURSIVE Upper(_)
Upper(s) == IF s = "" THEN "" ELSE UpperChar(CharAt(s, 1)) \o Upper(Tail(s))
RECURSIVE Lower(_)
Lower(s) == IF s = "" THEN "" ELSE LowerChar(CharAt(s, 1)) \o Lower(Tail(s))

\* The decimal digits int() reads and \d matches, among the characters used.
DigitValue ==
    ("0" :> 0) @@ ("1" :> 1) @@ ("2" :> 2) @@ ("3" :> 3) @@ ("4" :> 4) @@
    ("5" :> 5) @@ ("6" :> 6) @@ ("7" :> 7) @@ ("8" :> 8) @@ ("9" :> 9)
IsDecimalChar(c) == c \in DOMAIN DigitValue
DecimalValue(c) == DigitValue[c]

\* Characters for which str.isdigit() is true and that int() rejects
\* (superscript digits: Unicode category No with a digit value).
IsSuperscriptDigit(c) == c \in {"²", "³"}

\* str.isdigit(): not empty, every character a digit.
IsDigit(s) ==
    /\ s # ""
    /\ \A i \in 1..Len(s) : IsDecimalChar(CharAt(s, i)) \/ IsSuperscriptDigit(CharAt(s, i))

\* int(s) raises ValueError unless every character is a decimal digit.
IntRaises(s) == s = "" \/ \E i \in 1..Len(s) : ~IsDecimalChar(CharAt(s, i))

\* int(s) for a text of decimal digits.
RECURSIVE IntOf(_)
IntOf(s) ==
    IF s = "" THEN 0
    ELSE 10 * IntOf(SubSeq(s, 1, Len(s) - 1)) + DecimalValue(CharAt(s, Len(s)))

\* re.search(r'20\d{2}', text): the positions where a match starts.
YearMatches(text) ==
    { i \in 1..(Len(text) - 3) :
        /\ SubSeq(text, i, i + 1) = "20"
        /\ IsDecimalChar(CharAt(text, i + 2))
        /\ IsDecimalChar(CharAt(text, i + 3)) }

\* Lines 195-201: the year of a date cell, its first 20xx or else its text.
YearOf(date_text) ==
    IF YearMatches(date_text) # {}
    THEN LET i == CHOOSE m \in YearMatches(date_text) : \A n \in YearMatches(date_text) : m <= n
         IN  SubSeq(date_text, i, i + 3)
    ELSE date_text

---------------------------------------------------------------------------
(* extract_documents *)

\* A table cell: its get_text(strip=True), and whether it holds a link, an
\* image or a download marker (lines 206-208).
Cell(text, link) == [text |-> text, link |-> link]

\* A table: whether its header cells are th elements, the texts of the
\* cells of its first row, and its other rows (each a sequence of cells).
Table(th, header, rows) == [th |-> th, header |-> header, rows |-> rows]

\* The detail page as extract_documents reads it:
\*   section      "text" when one of the selectors of lines 107-116 finds
\*                "Atti e documenti", "none" otherwise
\*   after        the position in `tables` of the first table after that
\*                text (find_next), 0 when none follows
\*   tables       the tables of the page in document order
\*   class_filter what the call of line 119 does when the page holds a
\*                table: its second argument is matched by the library
\*                against the class attribute, where the callable fails
\*                ("raises"); "matches" is the line as written
DocPage(section, after, tables, class_filter) ==
    [section |-> section, after |-> after, tables |-> tables, class_filter |-> class_filter]

\* Line 119: the table has a th whose text contains one of the words.
HasDocumentHeader(table) ==
    /\ table.th
    /\ \E i \in DOMAIN table.header :
          \/ Contains(table.header[i], "Documento")
          \/ Contains(table.header[i], "documento")
          \/ Contains(table.header[i], "Allegato")

\* The selector of line 119 raised: the except of line 234 returns the
\* empty list.
SelectorRaises(page) ==
    /\ page.section = "none"
    /\ page.tables # <<>>
    /\ page.class_filter = "raises"

\* Lines 123-150: the tables to process.
CandidateTables(page) ==
    LET all == page.tables
        hits == { i \in DOMAIN all : HasDocumentHeader(all[i]) }
        found == IF page.section = "text"
                 THEN IF page.after \in DOMAIN all THEN <<all[page.after]>> ELSE <<>>
                 ELSE IF hits # {}
                      THEN <<all[CHOOSE i \in hits : \A j \in hits : i <= j]>>
                      ELSE <<>>
    IN  IF found # <<>> THEN found ELSE all

\* ' '.join(headers)
RECURSIVE JoinSpace(_)
JoinSpace(texts) ==
    IF texts = <<>> THEN ""
    ELSE IF Len(texts) = 1 THEN texts[1]
    ELSE texts[1] \o " " \o JoinSpace(Tail(texts))

\* Line 161
Headers(table) == [i \in DOMAIN table.header |-> Lower(table.header[i])]

\* Lines 164-165
DocumentKeywords == {"documento", "file", "pratica", "codice", "allegato", "data"}
LooksLikeDocuments(headers) ==
    \E keyword \in DocumentKeywords : Contains(JoinSpace(headers), keyword)

\* next((i for i, h in enumerate(headers) if any(kw in h ...)), default),
\* a 0-based column.
ColumnOf(headers, keywords, default) ==
    LET hits == { i \in DOMAIN headers : \E kw \in keywords : Contains(headers[i], kw) }
    IN  IF hits # {} THEN (CHOOSE i \in hits : \A j \in hits : i <= j) - 1 ELSE default

\* Lines 170-175
col_index(headers) ==
    [documento |-> ColumnOf(headers, {"documento", "file", "titolo"}, 0),
     codice |-> ColumnOf(headers, {"codice", "pratica", "id"}, 1),
     data |-> ColumnOf(headers, {"data", "anno", "period"}, 2),
     allegato |-> ColumnOf(headers, {"allegato", "download", "file"}, 3)]

\* Lines 185-218: the document of a row of at least two cells.
RowDocument(cells, col) ==
    DocumentData(
        IF col.documento < Len(cells) THEN cells[col.documento + 1].text ELSE "",
        IF col.codice < Len(cells) THEN cells[col.codice + 1].text ELSE "",
        IF col.data < Len(cells) THEN YearOf(cells[col.data + 1].text) ELSE "",
        IF col.allegato < Len(cells) /\ cells[col.allegato + 1].link THEN "Sì" ELSE "No")

\* Mutant of AlreadyListed: the year is part of the key.
AlreadyListed_with_year(documents, document_data) ==
    \E i \in DOMAIN documents :
        /\ documents[i].tipo_documento = document_data.tipo_documento
        /\ documents[i].codice_pratica = document_data.codice_pratica
        /\ documents[i].anno = document_data.anno

\* Lines 220-221: a document of that type and code is already in the list.
AlreadyListed(documents, document_data) ==
    \E i \in DOMAIN documents :
        /\ documents[i].tipo_documento = document_data.tipo_documento
        /\ documents[i].codice_pratica = document_data.codice_pratica

\* Lines 178-222: one row.
AddRow(documents, cells, col) ==
    IF Len(cells) < 2 THEN documents
    ELSE LET document_data == RowDocument(cells, col)
         IN  IF (document_data.tipo_documento # "" \/ document_data.codice_pratica # "")
                /\ ~AlreadyListed(documents, document_data)
             THEN Append(documents, document_data)
             ELSE documents

RECURSIVE AddRows(_, _, _)
AddRows(documents, rows, col) ==
    IF rows = <<>> THEN documents
    ELSE AddRows(AddRow(documents, Head(rows), col), Tail(rows), col)

\* Lines 153-224: one table; skipped when it has no row besides its first
\* or its headers name nothing of a document.
AddTable(documents, table) ==
    IF Len(table.rows) = 0 \/ ~LooksLikeDocuments(Headers(table)) THEN documents
    ELSE AddRows(documents, table.rows, col_index(Headers(table)))

RECURSIVE AddTables(_, _)
AddTables(documents, tables) ==
    IF tables = <<>> THEN documents
    ELSE AddTables(AddTable(documents, Head(tables)), Tail(tables))

\* The marker of a financial statement (line 228).
BalanceMarker == "BILANCIO"

\* Lines 227-230: the sort key.
SortKey(x) ==
    << IF Contains(Upper(x.tipo_documento), BalanceMarker) THEN 0 ELSE 1,
       IF IsDigit(x.anno) THEN -1 * IntOf(x.anno) ELSE 0 >>

\* Line 229: int() raises for a year that isdigit() accepts.
SortKeyRaises(x) == IsDigit(x.anno) /\ IntRaises(x.anno)

KeyLess(a, b) == a[1] < b[1] \/ (a[1] = b[1] /\ a[2] < b[2])

\* The stable sort of `documents` whose sort keys are `keys`, position by
\* position: the least key first, the earliest of equal keys first.
RECURSIVE SortByKeys(_, _)
SortByKeys(documents, keys) ==
    IF documents = <<>> THEN <<>>
    ELSE LET least == CHOOSE i \in DOMAIN keys :
                        /\ \A j \in DOMAIN keys : ~KeyLess(keys[j], keys[i])
                        /\ \A j \in 1..(i - 1) : KeyLess(keys[i], keys[j])
             Without(q) == [k \in 1..(Len(q) - 1) |-> IF k < least THEN q[k] ELSE q[k + 1]]
         IN  <<documents[least]>> \o SortByKeys(Without(documents), Without(keys))

\* list.sort(key=...): ascending keys, equal keys in their former order.
StableSort(documents) ==
    SortByKeys(documents, [i \in DOMAIN documents |-> SortKey(documents[i])])

\* extract_documents.  An exception of the sort (line 229) or of the
\* selector (line 119) is caught at line 234: the list is returned as it
\* stands, unsorted or empty.
extract_documents(page) ==
    IF SelectorRaises(page) THEN <<>>
    ELSE LET documents == AddTables(<<>>, CandidateTables(page))
         IN  IF \E i \in DOMAIN documents : SortKeyRaises(documents[i])
             THEN documents
             ELSE StableSort(documents)

---------------------------------------------------------------------------
(* compare_entities on drawn snapshots *)

CmpCodice == "80000000001"
CmpNome == "Ente Uno"

DocA == DocumentData("BILANCIO", "C1", "2023", "Sì")
DocB == DocumentData("BILANCIO", "C2", "2024", "Sì")

\* Snapshots as search_entity builds them; the document lists are in the
\* order extract_documents leaves them (financial statements by descending
\* year).  "N/A" is a text the registry page may show for a field.
CmpFound ==
    { [dati_base |-> b, dati_ente |-> e, sede_legale |-> s, persone |-> p, documenti |-> d] :
        b \in { [denominazione |-> "Ente Uno", comune |-> "Roma", sezione |-> "A"] },
        e \in { EmptyMap, [email_pec |-> "a@pec.it"], [email_pec |-> "b@pec.it"],
                [email_pec |-> "N/A"] },
        s \in { EmptyMap, [comune |-> "Roma"] },
        p \in { <<>>, <<[nome |-> "Anna", cognome |-> "Bianchi"]>> },
        d \in { <<>>, <<DocA>>, <<DocB, DocA>> } }

CmpSnapshots ==
    { EntityData(t, CmpCodice, f) : t \in {"2026-01-01 08:00:00", "2026-01-02 08:00:00"},
                                   f \in CmpFound }


\* The run variables while no run is modelled.
NoData == <<"none", "">>

RunIdle ==
    /\ pc = "idle"
    /\ history_file = EmptyMap
    /\ history = EmptyMap
    /\ all_changes = <<>>
    /\ idx = 0
    /\ current_data = NoData
    /\ had_entry = FALSE
    /\ old_entry = NoData
    /\ added = <<>>
    /\ notifications = <<>>
    /\ clock = 0
    /\ runs = 0
    /\ undelivered = <<>>

CmpIdle ==
    /\ cmp_pc = "off"
    /\ cmp_old = NoData
    /\ cmp_new = NoData
    /\ cmp_out = {}
    /\ cmp_back = {}

\* No run is modelled.
RunOff ==
    /\ config = [enti |-> <<>>, email |-> ""]
    /\ RunIdle

DocIdle ==
    /\ doc_pc = "off"
    /\ doc_page = NoData
    /\ doc_perm = NoData
    /\ doc_out = <<>>
    /\ doc_out_perm = <<>>

PerIdle ==
    /\ per_pc = "off"
    /\ per_soup = <<>>
    /\ per_num = 0
    /\ per_out = EmptyMap

SrchIdle ==
    /\ srch_pc = "off"
    /\ srch_enti = <<>>
    /\ srch_idx = 0
    /\ site = [stop |-> "complete", found |-> NothingFound]
    /\ srch_out = <<>>

CmpInit ==
    /\ cmp_pc = "drawn"
    /\ cmp_old \in CmpSnapshots
    /\ cmp_new \in CmpSnapshots
    /\ cmp_out = {}
    /\ cmp_back = {}
    /\ RunOff
    /\ DocIdle
    /\ PerIdle
    /\ SrchIdle

\* compare_entities(old, new, ...)
CmpCompare ==
    /\ cmp_pc = "drawn"
    /\ cmp_out' = compare_entities(cmp_old, cmp_new, CmpCodice, CmpNome)
    /\ cmp_pc' = "compared"
    /\ UNCHANGED <<cmp_old, cmp_new, cmp_back, runVars, docVars, perVars, srchVars>>

\* compare_entities(new, old, ...): the same two snapshots the other way.
CmpCompareBack ==
    /\ cmp_pc = "compared"
    /\ cmp_back' = compare_entities(cmp_new, cmp_old, CmpCodice, CmpNome)
    /\ cmp_pc' = "both"
    /\ UNCHANGED <<cmp_old, cmp_new, cmp_out, runVars, docVars, perVars, srchVars>>

CmpNext == CmpCompare \/ CmpCompareBack

SpecDiff == CmpInit /\ [][CmpNext]_vars

---------------------------------------------------------------------------
(* extract_documents on drawn pages *)

\* Data rows of a table of a drawn page, at most.
MaxRows == 3

StdHeader == <<"Documento", "Codice pratica", "Data", "Allegato">>
\* Columns in another order, named by other keywords.
SwappedHeader == <<"Codice pratica", "Titolo", "Anno", "File">>
\* Only the date column is named: the others fall back to positions 0, 1, 3.
PositionalHeader == <<"Tipo", "Numero", "Data deposito", "">>
\* Not a table of documents.
PersonHeader == <<"Nome", "Cognome", "Carica", "">>

Text(t) == Cell(t, FALSE)
Link == Cell("", TRUE)
NoLink == Cell("", FALSE)

\* The rows the drawn tables are made of, in the column order of StdHeader:
\* financial statements of two years, a second row for the case code C2
\* with another year and no attachment, other documents with a numeric
\* year, with no year, with year 0 and with a superscript digit as the
\* year, and a row with neither type nor code.
RowBalance2023 == <<Text("Bilancio d'esercizio"), Text("C1"), Text("31/12/2023"), Link>>
RowBalance2024 == <<Text("BILANCIO"), Text("C2"), Text("2024"), Link>>
RowBalanceAgain == <<Text("BILANCIO"), Text("C2"), Text("Anno 2023"), NoLink>>
RowStatute == <<Text("Statuto"), Text("C3"), Text("2023"), NoLink>>
RowNoYear == <<Text("Verbale"), Text("C4"), Text("n.d.")>>
RowYearZero == <<Text("Atto"), Text("C5"), Text("0"), Link>>
RowSuperscript == <<Text("Nota"), Text("C6"), Text("²"), NoLink>>
RowBlank == <<Text(""), Text(""), Text("2024"), NoLink>>

DocRows ==
    { RowBalance2023, RowBalance2024, RowBalanceAgain, RowStatute, RowNoYear,
      RowYearZero, RowSuperscript, RowBlank }

DocRowLists(max) == UNION { [1..n -> DocRows] : n \in 0..max }

\* The first row, and the rows after it.
FirstPart(rows) == IF rows = <<>> THEN <<>> ELSE <<Head(rows)>>
SecondPart(rows) == IF rows = <<>> THEN <<>> ELSE Tail(rows)

\* The pages drawn for a list of rows: one table after the section text
\* under each header; no section text, with either behaviour of line 119;
\* the rows in two tables, the section text before the second one, or
\* after both (every table is then scanned, line 150).
DocPagesOf(rows) ==
    { DocPage("text", 1, <<Table(TRUE, StdHeader, rows)>>, "matches"),
      DocPage("text", 1, <<Table(FALSE, SwappedHeader, rows)>>, "matches"),
      DocPage("text", 1, <<Table(TRUE, PositionalHeader, rows)>>, "matches"),
      DocPage("text", 1, <<Table(TRUE, PersonHeader, rows)>>, "matches"),
      DocPage("none", 0, <<Table(TRUE, StdHeader, rows)>>, "matches"),
      DocPage("none", 0, <<Table(TRUE, StdHeader, rows)>>, "raises"),
      DocPage("text", 2, <<Table(TRUE, StdHeader, FirstPart(rows)),
                           Table(TRUE, StdHeader, SecondPart(rows))>>, "matches"),
      DocPage("text", 0, <<Table(TRUE, StdHeader, FirstPart(rows)),
                           Table(TRUE, StdHeader, SecondPart(rows))>>, "matches") }

DocPages(max) == UNION { DocPagesOf(rows) : rows \in DocRowLists(max) }

\* The rows of all the tables of a page, in document order.
RECURSIVE AllRows(_)
AllRows(tables) ==
    IF tables = <<>> THEN <<>> ELSE Head(tables).rows \o AllRows(Tail(tables))

\* The rows before table t of the page.
RowsBefore(tables, t) == Len(AllRows(SubSeq(tables, 1, t - 1)))

\* The same page with the rows listed in the order `order` (a sequence of
\* positions of AllRows), each table keeping its number of rows.
Reordered(page, order) ==
    LET all == AllRows(page.tables)
    IN  [page EXCEPT !.tables =
            [t \in DOMAIN page.tables |->
                [page.tables[t] EXCEPT !.rows =
                    [j \in DOMAIN page.tables[t].rows |->
                        all[order[RowsBefore(page.tables, t) + j]]]]]]

Reorderings(page) ==
    { Reordered(page, order) : order \in ListOrders(1..Len(AllRows(page.tables))) }

DocInit ==
    /\ doc_pc = "drawn"
    /\ doc_page \in DocPages(MaxRows)
    /\ doc_perm = NoData
    /\ doc_out = <<>>
    /\ doc_out_perm = <<>>
    /\ RunOff
    /\ CmpIdle
    /\ PerIdle
    /\ SrchIdle

DocOrderInit ==
    /\ doc_pc = "drawn"
    /\ doc_page \in DocPages(MaxRows)
    /\ doc_perm \in Reorderings(doc_page)
    /\ doc_out = <<>>
    /\ doc_out_perm = <<>>
    /\ RunOff
    /\ CmpIdle
    /\ PerIdle
    /\ SrchIdle

\* extract_documents(soup)
DocExtract ==
    /\ doc_pc = "drawn"
    /\ doc_out' = extract_documents(doc_page)
    /\ doc_pc' = "extracted"
    /\ UNCHANGED <<doc_page, doc_perm, doc_out_perm, runVars, cmpVars, perVars, srchVars>>

\* extract_documents on the page with its rows in the other order.
DocExtractReordered ==
    /\ doc_pc = "extracted"
    /\ doc_out_perm' = extract_documents(doc_perm)
    /\ doc_pc' = "both"
    /\ UNCHANGED <<doc_page, doc_perm, doc_out, runVars, cmpVars, perVars, srchVars>>

DocNext == DocExtract

DocOrderNext == DocExtract \/ DocExtractReordered

SpecDocs == DocInit /\ [][DocNext]_vars

SpecDocsOrder == DocOrderInit /\ [][DocOrderNext]_vars

---------------------------------------------------------------------------
(* extract_text and extract_person_data *)

\* The parsed page as far as the two functions look at it: a sequence of
\* blocks in document order, each a sequence of child elements holding one
\* text; div tells whether the block is a <div>.
Element(tag, text) == [tag |-> tag, text |-> text]
Block(div, children) == [div |-> div, children |-> children]

NoPosition == <<0, 0>>
Positions(soup) == UNION {{<<b, c>> : c \in 1..Len(soup[b].children)} : b \in 1..Len(soup)}
ElementAt(soup, p) == soup[p[1]].children[p[2]]
DocumentOrder(p, q) == p[1] < q[1] \/ (p[1] = q[1] /\ p[2] < q[2])

\* soup.find(...): the first match in document order, NoPosition for None.
FirstOf(S) == IF S = {} THEN NoPosition ELSE CHOOSE p \in S : \A q \in S : p = q \/ DocumentOrder(p, q)

\* soup.find('strong', string=lambda x: x and label_text in x)
find_strong(soup, label_text) == FirstOf({p \in Positions(soup) : ElementAt(soup, p).tag = "strong" /\ Contains(ElementAt(soup, p).text, label_text)})

\* soup.find(string=lambda x: x and label_text in x); the position is that
\* of the element holding the string, i.e. of find_parent().
find_string(soup, label_text) == FirstOf({p \in Positions(soup) : Contains(ElementAt(soup, p).text, label_text)})

\* element.find_next_sibling() is not None
HasNextSibling(soup, p) == p # NoPosition /\ p[2] < Len(soup[p[1]].children)

\* str.strip(), as get_text(strip=True) applies it
RECURSIVE LStrip(_)
LStrip(s) == IF s = "" THEN "" ELSE IF Head(s) = " " THEN LStrip(Tail(s)) ELSE s
RECURSIVE RStrip(_)
RStrip(s) == IF s = "" THEN "" ELSE IF CharAt(s, Len(s)) = " " THEN RStrip(SubSeq(s, 1, Len(s) - 1)) ELSE s
Strip(s) == RStrip(LStrip(s))

\* The element whose next sibling extract_text reads, NoPosition when it
\* returns None.
LabelElement(soup, label_text) ==
    LET strong == find_strong(soup, label_text)
        str == find_string(soup, label_text)
    IN  IF HasNextSibling(soup, strong) THEN strong
        ELSE IF HasNextSibling(soup, str) THEN str
        ELSE NoPosition

PyNone == <<"none", "">>

extract_text(soup, label_text) ==
    LET element == LabelElement(soup, label_text)
    IN  IF element = NoPosition THEN PyNone
        ELSE PyStr(Strip(ElementAt(soup, <<element[1], element[2] + 1>>).text))

PersonLabels == [tipo |-> "Tipo", rappresentante_legale |-> "Rappresentante legale", codice_fiscale |-> "Codice fiscale", nome |-> "Nome", cognome |-> "Cognome", data_nascita |-> "Data di nascita", provincia |-> "Provincia", comune |-> "Comune", carica |-> "Carica", data_nomina |-> "Data nomina"]

PersonHeading(person_num) == "Persona " \o ToString(person_num)

\* person_section.find_parent('div'): the block of the first string that
\* contains "Persona <n>", 0 when there is no such string or no div.
person_container(soup, person_num) ==
    LET person_section == find_string(soup, PersonHeading(person_num))
    IN  IF person_section = NoPosition THEN 0
        ELSE IF ~soup[person_section[1]].div THEN 0
        ELSE person_section[1]

extract_person_data(soup, person_num) ==
    IF person_container(soup, person_num) = 0 THEN EmptyMap
    ELSE LET person_data == [k \in DOMAIN PersonLabels |-> extract_text(soup, PersonLabels[k])]
         IN  [k \in {f \in DOMAIN PersonLabels : person_data[f] # PyNone} |-> person_data[k][2]]

---------------------------------------------------------------------------
(* extract_person_data on drawn pages *)

MaxBlocks == 3
LastPerson == 10

EntityBlock == Block(TRUE, <<Element("strong", "Codice fiscale"), Element("span", "80000000001"), Element("strong", "Comune"), Element("span", "Roma")>>)
PersonOne == Block(TRUE, <<Element("h4", "Persona 1"), Element("strong", "Nome"), Element("span", "Anna"), Element("strong", "Carica"), Element("span", "Presidente")>>)
PersonTwo == Block(TRUE, <<Element("h4", "Persona 2"), Element("strong", "Nome"), Element("span", " Bruno "), Element("strong", "Carica"), Element("span", "Tesoriere")>>)
PersonTwoPlain == Block(TRUE, <<Element("h4", "Persona 2"), Element("span", "Cognome"), Element("span", "Verdi"), Element("strong", "Carica")>>)
PersonTen == Block(TRUE, <<Element("h4", "Persona 10"), Element("strong", "Nome"), Element("span", "")>>)
PersonThreeNoDiv == Block(FALSE, <<Element("h4", "Persona 3"), Element("strong", "Nome"), Element("span", "Carla")>>)

Blocks == {EntityBlock, PersonOne, PersonTwo, PersonTwoPlain, PersonTen, PersonThreeNoDiv}
Soups(max) == UNION {[1..n -> Blocks] : n \in 0..max}

PerInit ==
    /\ per_pc = "drawn"
    /\ per_soup \in Soups(MaxBlocks)
    /\ per_num \in 1..LastPerson
    /\ per_out = EmptyMap
    /\ RunOff
    /\ CmpIdle
    /\ DocIdle
    /\ SrchIdle

\* extract_person_data(soup, i)
PerExtract ==
    /\ per_pc = "drawn"
    /\ per_out' = extract_person_data(per_soup, per_num)
    /\ per_pc' = "extracted"
    /\ UNCHANGED <<per_soup, per_num, runVars, cmpVars, docVars, srchVars>>

PerNext == PerExtract

SpecPerson == PerInit /\ [][PerNext]_vars

---------------------------------------------------------------------------
(* Properties of extract_person_data, under SpecPerson *)

\* C4: every field of the record extract_person_data returns for person i
\* was read next to a label that lies inside the container located for
\* person i.
C4_FieldsFromContainer ==
    per_pc = "extracted" =>
        \A k \in DOMAIN per_out : LabelElement(per_soup, PersonLabels[k])[1] = person_container(per_soup, per_num)

\* C11: no value of a person record returned by extract_person_data is
\* the empty string (an absent value has no key, so none is null).
C11_NoEmptyValues ==
    per_pc = "extracted" => \A k \in DOMAIN per_out : per_out[k] # ""

---------------------------------------------------------------------------
(* Properties of extract_documents, under SpecDocs and SpecDocsOrder *)

\* A year made of decimal digits only.
IsNumericYear(anno) ==
    anno # "" /\ \A i \in 1..Len(anno) : IsDecimalChar(CharAt(anno, i))

\* The document is a financial statement: its type contains BILANCIO,
\* whatever the case.
IsFinancialStatement(document) == Contains(Upper(document.tipo_documento), "BILANCIO")

\* C7: the list extract_documents returns holds no two documents with the
\* same (tipo_documento, codice_pratica), also when the rows come from
\* different tables or differ in year or attachment.
C7_NoDuplicateDocuments ==
    doc_pc = "extracted" =>
        \A i, j \in DOMAIN doc_out :
            (/\ doc_out[i].tipo_documento = doc_out[j].tipo_documento
             /\ doc_out[i].codice_pratica = doc_out[j].codice_pratica) => i = j

\* Two tables were scanned, each with a row for (BILANCIO, C2), the rows
\* differing in year and attachment; one document was returned for them.
C7_Witness ==
    /\ doc_pc = "extracted"
    /\ doc_page.section = "text"
    /\ doc_page.after = 0
    /\ doc_page.tables[1].rows = <<RowBalance2024>>
    /\ doc_page.tables[2].rows = <<RowStatute, RowBalanceAgain>>
    /\ Len(doc_out) = 2
    /\ \E i \in DOMAIN doc_out :
          doc_out[i] = DocumentData("BILANCIO", "C2", "2024", "Sì")

\* C8: two pages with the same rows in a different order give the same
\* list of documents.
C8_OrderIndependent ==
    doc_pc = "both" => doc_out = doc_out_perm

\* C9: in the returned list every financial statement precedes every other
\* document; within each of the two groups numeric years descend, and no
\* document with a non-numeric or empty year precedes one with a numeric
\* year.
C9_SortPolicy ==
    doc_pc = "extracted" =>
        \A i, j \in DOMAIN doc_out :
            i < j =>
                /\ ~(~IsFinancialStatement(doc_out[i]) /\ IsFinancialStatement(doc_out[j]))
                /\ (IsFinancialStatement(doc_out[i]) <=> IsFinancialStatement(doc_out[j])) =>
                      /\ (IsNumericYear(doc_out[i].anno) /\ IsNumericYear(doc_out[j].anno))
                            => IntOf(doc_out[i].anno) >= IntOf(doc_out[j].anno)
                      /\ ~(~IsNumericYear(doc_out[i].anno) /\ IsNumericYear(doc_out[j].anno))

---------------------------------------------------------------------------
(* Properties of compare_entities, under SpecDiff *)

CmpDone == cmp_pc \in {"compared", "both"}

\* The identity keys (documentType, caseCode) of a snapshot's documents.
DocKeys(snapshot) ==
    { <<doc[2].tipo_documento[2], doc[2].codice_pratica[2]>> :
        doc \in { snapshot[2].documenti[2][i] : i \in DOMAIN snapshot[2].documenti[2] } }

\* The dotted paths, other than data_controllo, at which two snapshots
\* differ: present on one side only, or present on both with other values.
DifferingPaths(a, b) ==
    LET fa == flatten_dict(a, "")
        fb == flatten_dict(b, "")
    IN  { p \in ((DOMAIN fa) \cup (DOMAIN fb)) \ {"data_controllo"} :
            IF p \in DOMAIN fa /\ p \in DOMAIN fb THEN fa[p] # fb[p] ELSE TRUE }

\* Two snapshots equal in every field except data_controllo.
EqualButCapturedAt(a, b) ==
    [a[2] EXCEPT !.data_controllo = PyStr("")] = [b[2] EXCEPT !.data_controllo = PyStr("")]

\* C3: every financial-statement document of the new snapshot whose
\* (documentType, caseCode) is not in the old snapshot yields exactly one
\* new-document ChangeRecord ("Nuovo bilancio pubblicato"): the result
\* holds as many new-document records as there are new documents.
C3_NewDocumentRecords ==
    CmpDone =>
        Cardinality({ c \in cmp_out : c.campo = NewBalanceField })
            = Cardinality(DocKeys(cmp_new) \ DocKeys(cmp_old))

\* C5: compare_entities(A, B) and compare_entities(B, A) report the same
\* dotted paths, and at each path the previous and new values of one are
\* the new and previous values of the other.
C5_DiffSymmetry ==
    cmp_pc = "both" =>
        /\ { c.campo : c \in cmp_out } = { c.campo : c \in cmp_back }
        /\ \A c \in cmp_out : \A b \in cmp_back :
              b.campo = c.campo =>
                  /\ b.valore_precedente = c.valore_nuovo
                  /\ b.valore_nuovo = c.valore_precedente

\* A path present in one snapshot only was compared in both directions.
C5_Witness ==
    /\ cmp_pc = "both"
    /\ \E c \in cmp_out : c.valore_precedente = NA /\ c.valore_nuovo # NA
    /\ \E c \in cmp_out : c.valore_precedente # NA /\ c.valore_nuovo # NA

\* C6: two snapshots equal in every field except data_controllo compare
\* to zero changes, and data_controllo is never the path of a ChangeRecord.
C6_Idempotence ==
    CmpDone =>
        /\ EqualButCapturedAt(cmp_old, cmp_new) => cmp_out = {}
        /\ \A c \in cmp_out : c.campo # "data_controllo"

\* Two captures of the same content at different times were compared.
C6_Witness ==
    /\ CmpDone
    /\ EqualButCapturedAt(cmp_old, cmp_new)
    /\ cmp_old # cmp_new
    /\ cmp_old[2].documenti[2] # <<>>

\* C10: when the two snapshots differ in exactly one scalar field,
\* compare_entities gives exactly one ChangeRecord, for that field's dotted
\* path, and it is a field change (not a new-document record).
C10_FieldOnlyChange ==
    (CmpDone /\ Cardinality(DifferingPaths(cmp_old, cmp_new)) = 1) =>
        /\ Cardinality(cmp_out) = 1
        /\ \A c \in cmp_out :
              /\ c.campo \in DifferingPaths(cmp_old, cmp_new)
              /\ c.campo # NewBalanceField

---------------------------------------------------------------------------
(* The monitoring run: check_for_changes, process_entity, save_history,   *)
(* send_notification                                                       *)

\* Runs of check_for_changes modelled in one behaviour.
MaxRuns == 3

EnteX == [numero_repertorio |-> "80000000001", nome |-> "Ente Uno"]
EnteY == [numero_repertorio |-> "80000000002", nome |-> "Ente Due"]

\* config.json: the monitored entities and the recipient of notifications
\* (empty when none is configured).
Configs ==
    { [enti |-> e, email |-> m] : e \in { <<EnteX>>, <<EnteX, EnteY>> },
                                  m \in { "", "monitor@example.org" } }

\* What the registry shows for an entity at one capture, as search_entity
\* stores it: nothing (no results, or a step failed), or the detail fields.
RunFound ==
    { NothingFound,
      [NothingFound EXCEPT !.dati_ente = [email_pec |-> "a@pec.it"]],
      [NothingFound EXCEPT !.dati_ente = [email_pec |-> "b@pec.it"],
                           !.sede_legale = [comune |-> "Roma"]] }

\* datetime.now().strftime(...) of line 245, the clock counted in captures.
Strftime(t) == ToString(t)

\* search_entity: the dict entity_data it returns, on every path.
search_entity(codice_fiscale, now, found) == EntityData(Strftime(now), codice_fiscale, found)

\* The entity the loop of line 700 is at.
Ente == config.enti[idx]

\* Mutant of entity_changes: a missing entry is compared as an empty dict.
entity_changes_default_empty(hist, codice_fiscale, nome, data) ==
    compare_entities(IF codice_fiscale \in DOMAIN hist THEN hist[codice_fiscale]
                     ELSE PyDict(EmptyMap),
                     data, codice_fiscale, nome)

\* Mutant of entity_changes: the comparison comes after the write of line
\* 676, the entry read is the new snapshot.
entity_changes_after_write(hist, codice_fiscale, nome, data) ==
    IF codice_fiscale \in DOMAIN hist
    THEN compare_entities(data, data, codice_fiscale, nome)
    ELSE {}

\* Lines 664-673: the ChangeRecords of this entity, none when history has no
\* entry for it.
entity_changes(hist, codice_fiscale, nome, data) ==
    IF codice_fiscale \in DOMAIN hist
    THEN compare_entities(hist[codice_fiscale], data, codice_fiscale, nome)
    ELSE {}

\* Mutant of HistoryPut: an entry already present is kept.
HistoryPut_keep_existing(hist, codice_fiscale, data) ==
    [k \in (DOMAIN hist) \cup {codice_fiscale} |->
        IF k \in DOMAIN hist THEN hist[k] ELSE data]

\* Line 676: history[codice_fiscale] = current_data
HistoryPut(hist, codice_fiscale, data) ==
    [k \in (DOMAIN hist) \cup {codice_fiscale} |->
        IF k = codice_fiscale THEN data ELSE hist[k]]

\* Mutant of save_history: nothing reaches the file.
save_history_nothing(hist) == EmptyMap

\* json.dump / json.load of the history (lines 34-44): dicts with string
\* keys, lists and strings are read back as written.
save_history(hist) == hist
load_history(file) == file

\* ---- send_notification ----

StartsWith(s, prefix) ==
    Len(s) >= Len(prefix) /\ SubSeq(s, 1, Len(prefix)) = prefix

\* Line 471
EntityKey(change) == change.nome \o " (" \o change.codice_fiscale \o ")"

\* Line 571: at most this many rows per entity.
SignificantLimit == 15

\* The positions of `changes` in increasing order that belong to set S.
RECURSIVE PositionsIn(_)
PositionsIn(S) ==
    IF S = {} THEN <<>>
    ELSE LET m == CHOOSE i \in S : \A j \in S : i <= j
         IN  <<m>> \o PositionsIn(S \ {m})

\* The keys of changes_by_entity in insertion order (lines 470-475).
EntityKeys(changes) ==
    LET first == { i \in DOMAIN changes :
                     \A j \in 1..(i - 1) : EntityKey(changes[j]) # EntityKey(changes[i]) }
        pos == PositionsIn(first)
    IN  [n \in DOMAIN pos |-> EntityKey(changes[pos[n]])]

\* Lines 531-586: the section of the report for one entity.
EntitySection(changes, entity_name) ==
    LET Mine(c) == EntityKey(c) = entity_name
        IsBalance(c) == c.campo = NewBalanceField
        Important(c) == /\ ~StartsWith(c.campo, "documenti")
                        /\ ~StartsWith(c.campo, "persone")
                        /\ c.campo # NewBalanceField
        entity_changes_list == SelectSeq(changes, Mine)
        balances == SelectSeq(entity_changes_list, IsBalance)
        important_changes == SelectSeq(entity_changes_list, Important)
    IN  [entity_name |-> entity_name,
         count |-> Len(entity_changes_list),
         new_balances |-> [i \in DOMAIN balances |-> balances[i].valore_nuovo],
         rows |-> SubSeq(important_changes, 1,
                         IF Len(important_changes) < SignificantLimit
                         THEN Len(important_changes) ELSE SignificantLimit)]

\* Mutant of NotificationFile: the changes are stored newest first.
NotificationFile_reversed(recipient_email, changes) ==
    [email |-> recipient_email,
     subject |-> "RUNTS Monitor",
     content |-> [num_entities |-> Len(EntityKeys(changes)), sections |-> <<>>],
     changes |-> [i \in DOMAIN changes |-> changes[Len(changes) + 1 - i]]]

\* Lines 466-606: the notification file, its HTML body kept as the data it
\* is rendered from.
NotificationFile(recipient_email, changes) ==
    LET keys == EntityKeys(changes)
    IN  [email |-> recipient_email,
         subject |-> "RUNTS Monitor: Modifiche rilevate per "
                        \o ToString(Len(keys)) \o " enti",
         content |-> [num_entities |-> Len(keys),
                      sections |-> [n \in DOMAIN keys |-> EntitySection(changes, keys[n])]],
         changes |-> changes]

\* ---- the steps of a run ----

RunInit ==
    /\ config \in Configs
    /\ RunIdle
    /\ CmpIdle
    /\ DocIdle
    /\ PerIdle
    /\ SrchIdle

\* check_for_changes, lines 683-685 and the start of the loop.
StartRun ==
    /\ pc = "idle"
    /\ runs < MaxRuns
    /\ history' = load_history(history_file)
    /\ all_changes' = <<>>
    /\ idx' = 1
    /\ pc' = "search"
    /\ UNCHANGED <<config, history_file, current_data, had_entry, old_entry, added,
                   notifications, clock, runs, undelivered, cmpVars, docVars, perVars, srchVars>>

\* process_entity, line 661: current_data = await search_entity(...)
Search ==
    /\ pc = "search"
    /\ \E found \in RunFound :
          current_data' = search_entity(Ente.numero_repertorio, clock, found)
    /\ clock' = clock + 1
    /\ pc' = "compare"
    /\ UNCHANGED <<config, history_file, history, all_changes, idx, had_entry, old_entry,
                   added, notifications, runs, undelivered, cmpVars, docVars, perVars, srchVars>>

\* process_entity, lines 664-673: read the old entry, compare, extend
\* all_changes.
Compare ==
    /\ pc = "compare"
    /\ had_entry' = (Ente.numero_repertorio \in DOMAIN history)
    /\ old_entry' = IF Ente.numero_repertorio \in DOMAIN history
                    THEN history[Ente.numero_repertorio] ELSE NoData
    /\ \E changes \in ListOrders(entity_changes(history, Ente.numero_repertorio,
                                                Ente.nome, current_data)) :
          /\ added' = changes
          /\ all_changes' = all_changes \o changes
    /\ pc' = "update"
    /\ UNCHANGED <<config, history_file, history, idx, current_data, notifications,
                   clock, runs, undelivered, cmpVars, docVars, perVars, srchVars>>

\* process_entity, line 676.
Update ==
    /\ pc = "update"
    /\ history' = HistoryPut(history, Ente.numero_repertorio, current_data)
    /\ pc' = "processed"
    /\ UNCHANGED <<config, history_file, all_changes, idx, current_data, had_entry,
                   old_entry, added, notifications, clock, runs, undelivered, cmpVars, docVars, perVars, srchVars>>

\* process_entity returns (line 679); the loop of line 700 goes on or ends.
NextEntity ==
    /\ pc = "processed"
    /\ IF idx < Len(config.enti)
       THEN idx' = idx + 1 /\ pc' = "search"
       ELSE idx' = idx /\ pc' = "save"
    /\ UNCHANGED <<config, history_file, history, all_changes, current_data, had_entry,
                   old_entry, added, notifications, clock, runs, undelivered, cmpVars, docVars, perVars, srchVars>>

\* check_for_changes, line 707.
SaveHistory ==
    /\ pc = "save"
    /\ history_file' = save_history(history)
    /\ pc' = IF all_changes # <<>> THEN "notify" ELSE "done"
    /\ undelivered' = <<>>
    /\ UNCHANGED <<config, history, all_changes, idx, current_data, had_entry, old_entry,
                   added, notifications, clock, runs, cmpVars, docVars, perVars, srchVars>>

\* check_for_changes, line 712: send_notification(all_changes).
Notify ==
    /\ pc = "notify"
    /\ notifications' = IF config.email = "" THEN notifications
                        ELSE Append(notifications, NotificationFile(config.email, all_changes))
    /\ undelivered' = IF config.email = "" THEN all_changes ELSE <<>>
    /\ pc' = "done"
    /\ UNCHANGED <<config, history_file, history, all_changes, idx, current_data, had_entry,
                   old_entry, added, clock, runs, cmpVars, docVars, perVars, srchVars>>

\* send_notification raises with a recipient configured (the file of line
\* 600 cannot be written): nothing catches it, check_for_changes ends
\* there.
NotifyFails ==
    /\ pc = "notify"
    /\ config.email # ""
    /\ undelivered' = all_changes
    /\ pc' = "done"
    /\ UNCHANGED <<config, history_file, history, all_changes, idx, current_data, had_entry,
                   old_entry, added, notifications, clock, runs, cmpVars, docVars, perVars, srchVars>>

\* check_for_changes returns (line 716).
Finish ==
    /\ pc = "done"
    /\ runs' = runs + 1
    /\ pc' = "idle"
    /\ UNCHANGED <<config, history_file, history, all_changes, idx, current_data, had_entry,
                   old_entry, added, notifications, clock, undelivered, cmpVars, docVars, perVars, srchVars>>

Next ==
    \/ StartRun
    \/ Search
    \/ Compare
    \/ Update
    \/ NextEntity
    \/ SaveHistory
    \/ Notify
    \/ NotifyFails
    \/ Finish

Spec == RunInit /\ [][Next]_vars

---------------------------------------------------------------------------
(* search_entity called for the entities of a list *)

\* The first result row (lines 352-356).
ResultRow == [denominazione |-> "Ente Uno", comune |-> "Roma", sezione |-> "A"]

\* What the pages of the registry hold for an entity, as a complete search
\* would store it: the result row (none with a table of one row), the
\* fields of the detail page, persons and documents.
SearchFound ==
    { [dati_base |-> b, dati_ente |-> e, sede_legale |-> l, persone |-> p, documenti |-> d] :
        b \in { EmptyMap, ResultRow },
        e \in { EmptyMap, [email_pec |-> "a@pec.it"] },
        l \in { EmptyMap, [comune |-> "Roma"] },
        p \in { <<>>, <<[nome |-> "Anna"]>> },
        d \in { <<>>, <<DocumentData("BILANCIO", "C1", "2023", "No")>> } }

\* Where a call of search_entity ends:
\*   "goto"        page.goto raised (line 256, caught at line 453)
\*   "input"       no input field and the script raised (line 300)
\*   "button"      no CERCA button and the script raised (line 329)
\*   "no_results"  the page says "Nessun risultato trovato" (line 338)
\*   "no_table"    the results page has no table (line 344)
\*   "detail"      no DETTAGLIO button and the script raised (line 384)
\*   "load"        loading or parsing the detail page raised (lines
\*                 389-405, caught at line 453)
\*   "complete"    line 451
SearchStops ==
    {"goto", "input", "button", "no_results", "no_table", "detail", "load", "complete"}

\* The stops before the results table is read (line 352).
BeforeResults == {"goto", "input", "button", "no_results", "no_table"}

\* Mutant of Extracted: a search that ends early keeps what the pages hold.
Extracted_everything(stop, found) == found

\* What entity_data holds of the pages' content `found` when search_entity
\* ends at `stop`: nothing before line 352, the result row until the
\* extraction of lines 404-448 has run, everything at line 451.
Extracted(stop, found) ==
    IF stop \in BeforeResults THEN NothingFound
    ELSE IF stop \in {"detail", "load"} THEN [NothingFound EXCEPT !.dati_base = found.dati_base]
    ELSE found

SrchInit ==
    /\ srch_pc = "call"
    /\ srch_enti \in { c.enti : c \in Configs }
    /\ srch_idx = 1
    /\ site = [stop |-> "complete", found |-> NothingFound]
    /\ srch_out = <<>>
    /\ RunOff
    /\ CmpIdle
    /\ DocIdle
    /\ PerIdle

\* process_entity, line 661: search_entity(page, codice_fiscale) runs to one
\* of its returns.
SrchCall ==
    /\ srch_pc = "call"
    /\ \E stop \in SearchStops, found \in SearchFound :
          /\ site' = [stop |-> stop, found |-> found]
          /\ srch_out' = Append(srch_out,
                search_entity(srch_enti[srch_idx].numero_repertorio, Len(srch_out),
                              Extracted(stop, found)))
    /\ srch_pc' = "returned"
    /\ UNCHANGED <<srch_enti, srch_idx, runVars, cmpVars, docVars, perVars>>

\* The loop of line 700 goes on to the next entity, or ends.
SrchNextEntity ==
    /\ srch_pc = "returned"
    /\ IF srch_idx < Len(srch_enti)
       THEN srch_idx' = srch_idx + 1 /\ srch_pc' = "call"
       ELSE srch_idx' = srch_idx /\ srch_pc' = "end"
    /\ UNCHANGED <<srch_enti, site, srch_out, runVars, cmpVars, docVars, perVars>>

SrchNext == SrchCall \/ SrchNextEntity

SpecSearch == SrchInit /\ [][SrchNext]_vars

---------------------------------------------------------------------------
(* Properties of search_entity, under SpecSearch *)

\* The structured fields of a snapshot that are empty.
EmptyFields(snapshot) ==
    { f \in {"dati_base", "dati_ente", "sede_legale"} : snapshot[2][f] = StrDict(EmptyMap) }
        \cup { f \in {"persone", "documenti"} : snapshot[2][f] = DictList(<<>>) }

\* C12: wherever a call of search_entity ends, it returns a snapshot with
\* data_controllo and codice_fiscale set; its structured fields are all
\* empty when the search ended before the results were read, hold the
\* result row alone when it ended before the extraction of the detail
\* page, and hold what the pages held when it completed; and when the loop
\* ends a snapshot has been returned for every entity of the list.
C12_NoFatalPath ==
    /\ srch_pc \in {"returned", "end"} =>
          LET snapshot == srch_out[Len(srch_out)]
          IN  /\ Len(srch_out) = srch_idx
              /\ snapshot[2].codice_fiscale = PyStr(srch_enti[srch_idx].numero_repertorio)
              /\ snapshot[2].data_controllo # PyStr("")
              /\ site.stop \in BeforeResults =>
                    EmptyFields(snapshot) = {"dati_base", "dati_ente", "sede_legale", "persone", "documenti"}
              /\ site.stop \in {"detail", "load"} =>
                    /\ snapshot[2].dati_base = StrDict(site.found.dati_base)
                    /\ {"dati_ente", "sede_legale", "persone", "documenti"} \subseteq EmptyFields(snapshot)
              /\ site.stop = "complete" =>
                    /\ snapshot[2].dati_base = StrDict(site.found.dati_base)
                    /\ snapshot[2].dati_ente = StrDict(site.found.dati_ente)
                    /\ snapshot[2].sede_legale = StrDict(site.found.sede_legale)
                    /\ snapshot[2].persone = DictList(site.found.persone)
                    /\ snapshot[2].documenti = DictList(site.found.documenti)
    /\ srch_pc = "end" => Len(srch_out) = Len(srch_enti)

\* The search of the first entity ended after the result row was read and
\* before the detail page was extracted, although that page had fields;
\* the second entity was then searched to the end.
C12_Witness ==
    /\ srch_pc = "end"
    /\ Len(srch_out) = 2
    /\ EmptyFields(srch_out[1]) = {"dati_ente", "sede_legale", "persone", "documenti"}
    /\ site.stop = "complete"
    /\ EmptyFields(srch_out[2]) = {}

---------------------------------------------------------------------------
(* Properties of the run, under Spec *)

\* C1: when process_entity has finished for an identifier, history holds
\* for it exactly the snapshot captured in that call, whether the
\* comparison found changes, found none or was skipped, in every run; and
\* the file written at the end of the run is that history.
C1_HistoryHoldsCapture ==
    /\ pc = "processed" =>
          /\ Ente.numero_repertorio \in DOMAIN history
          /\ history[Ente.numero_repertorio] = current_data
    /\ pc \in {"notify", "done"} => history_file = history

\* A later run found an entry, no change, and replaced the entry by the
\* new capture all the same.
C1_Witness ==
    /\ pc = "processed"
    /\ runs >= 1
    /\ had_entry
    /\ added = <<>>
    /\ old_entry # current_data
    /\ history[Ente.numero_repertorio] = current_data

\* C2: processing an identifier for which history has no entry adds no
\* ChangeRecord to all_changes, and leaves an entry for it in history.
C2_FirstSighting ==
    [][ /\ (pc = "compare" /\ Ente.numero_repertorio \notin DOMAIN history)
            => all_changes' = all_changes
        /\ (pc = "update" /\ ~had_entry)
            => Ente.numero_repertorio \in DOMAIN history' ]_vars

\* An identifier seen for the first time, with fields extracted, has been
\* processed.
C2_Witness ==
    /\ pc = "processed"
    /\ ~had_entry
    /\ DOMAIN current_data[2].dati_ente[2] # {}
    /\ Ente.numero_repertorio \in DOMAIN history
    /\ added = <<>>

\* The set of the ChangeRecords of a list.
Records(changes) == { changes[i] : i \in DOMAIN changes }

\* C13 as stated: every run produces exactly one notification artifact.
C13_OneArtifactPerRun ==
    pc = "idle" => Len(notifications) = runs

\* C13, amended: a notification artifact is written only by the
\* notification step of a run that found changes and has a recipient
\* configured, one artifact at most per run; the artifact holds that
\* recipient, the subject line, the report body for the entities of the
\* changes, and the run's ChangeRecords in the order they were produced.
C13_ArtifactOfChanges ==
    [][ notifications' # notifications =>
          /\ pc = "notify" /\ pc' = "done"
          /\ all_changes # <<>>
          /\ config.email # ""
          /\ Len(notifications') = Len(notifications) + 1
          /\ SubSeq(notifications', 1, Len(notifications)) = notifications
          /\ LET file == notifications'[Len(notifications')]
             IN  /\ file.email = config.email
                 /\ file.subject = "RUNTS Monitor: Modifiche rilevate per "
                                     \o ToString(Cardinality({ c.codice_fiscale : c \in Records(all_changes) }))
                                     \o " enti"
                 /\ file.content.num_entities = Cardinality({ c.codice_fiscale : c \in Records(all_changes) })
                 /\ Len(file.content.sections) = file.content.num_entities
                 /\ file.changes = all_changes ]_vars

\* A run with changes for two entities has written its artifact.
C13_Witness ==
    /\ pc = "done"
    /\ notifications # <<>>
    /\ notifications[Len(notifications)].changes = all_changes
    /\ Len(all_changes) >= 3
    /\ Cardinality({ c.codice_fiscale : c \in Records(all_changes) }) = 2

\* C14: when process_entity is about to write history[X], history still
\* holds for X what the file held when the run began (nothing, on a first
\* sighting), that entry is the one that was read, and the ChangeRecords
\* added for X are those of comparing that entry with the new snapshot.
C14_ReadBeforeWrite ==
    pc = "update" =>
        /\ had_entry = (Ente.numero_repertorio \in DOMAIN history)
        /\ had_entry = (Ente.numero_repertorio \in DOMAIN history_file)
        /\ had_entry =>
              /\ history[Ente.numero_repertorio] = old_entry
              /\ history_file[Ente.numero_repertorio] = old_entry
              /\ old_entry # current_data
              /\ Records(added) = compare_entities(old_entry, current_data,
                                                   Ente.numero_repertorio, Ente.nome)
              /\ Len(added) = Cardinality(Records(added))
        /\ ~had_entry => added = <<>>

\* An entry was read, it differs from the new snapshot in two fields, and
\* the write has not happened yet.
C14_Witness ==
    /\ pc = "update"
    /\ had_entry
    /\ Len(added) = 2
    /\ history[Ente.numero_repertorio] = old_entry

\* C16: when the notification step starts, the history file already holds
\* the history with the new snapshot of every entity; the notification
\* step changes neither; and in a later run an entity whose capture equals
\* the saved one except for data_controllo adds no ChangeRecord, whether or
\* not the changes of the run before were delivered.
C16_PersistThenNotify ==
    /\ [](pc = "notify" =>
            /\ history_file = history
            /\ \A k \in DOMAIN config.enti :
                  config.enti[k].numero_repertorio \in DOMAIN history_file)
    /\ [][pc = "notify" => (history_file' = history_file /\ history' = history)]_vars
    /\ []((pc = "update" /\ runs >= 1) =>
            /\ Ente.numero_repertorio \in DOMAIN history_file
            /\ old_entry = history_file[Ente.numero_repertorio]
            /\ EqualButCapturedAt(old_entry, current_data) => added = <<>>)

\* The run before found changes for this entity and wrote no notification
\* (no recipient, or the write failed); this run captures the same content
\* and adds no ChangeRecord.
C16_Witness ==
    /\ pc = "update"
    /\ runs >= 1
    /\ notifications = <<>>
    /\ \E i \in DOMAIN undelivered : undelivered[i].codice_fiscale = Ente.numero_repertorio
    /\ had_entry
    /\ EqualButCapturedAt(old_entry, current_data)
    /\ added = <<>>

=============================================================================
